---- MODULE Spec2Model ----
(***************************************************************************)
(* Annual mean NDVI from Sentinel-2 monthly maximum-value composites       *)
(* (src/main.py).  The script builds an Earth Engine computation; the      *)
(* model follows one pixel location of the area of interest through it:    *)
(* every operation of the script is pixel-wise, so an image is its         *)
(* system:time_start property and, per band, the sample at that location.  *)
(* A sample is either masked (nodata) or an exact rational value.          *)
(* Timestamps are counted in whole days since 2024-01-01 (all window       *)
(* boundaries of the script fall on midnight UTC).                         *)
(***************************************************************************)
EXTENDS Integers, Sequences, FiniteSets, TLC

VARIABLES archive, pc, s2_collection, masked, s2_processed,
          monthly_mvc_collection, mean_ndvi, export_image

vars == <<archive, pc, s2_collection, masked, s2_processed,
          monthly_mvc_collection, mean_ndvi, export_image>>

----------------------------------------------------------------------------
(* Bounds and program constants *)

\* Largest number of images the catalogue holds over the area of interest.
MaxImages == 2

\* main.py:53  masked_image.divide(10000)
ScaleFactor == 10000
\* main.py:33  cloud_bit_mask = 1 << 10
CloudBit == 10
\* main.py:34  cirrus_bit_mask = 1 << 11
CirrusBit == 11
\* main.py:73  months = ee.List.sequence(1, 12)
NumMonths == 12
\* main.py:89  reproject('EPSG:4326', None, 10)
TargetScale == 10
\* Day count origin of the timestamps used here.
EpochYear == 2024

----------------------------------------------------------------------------
(* Exact arithmetic on samples *)

Abs(x) == IF x < 0 THEN -x ELSE x

RECURSIVE GCD(_, _)
GCD(a, b) == IF b = 0 THEN a ELSE GCD(b, a % b)

\* A masked sample.
NoData == [valid |-> FALSE, n |-> 0, d |-> 1]

\* The valid sample n/d (d # 0), in lowest terms with a positive denominator.
Rat(n, d) ==
    LET g == GCD(Abs(n), Abs(d))
        s == IF d < 0 THEN -1 ELSE 1
    IN [valid |-> TRUE, n |-> s * (n \div g), d |-> s * (d \div g)]

\* A raw digital number.
DN(n) == Rat(n, 1)

RatLess(a, b) == a.n * b.d < b.n * a.d
RatAdd(a, b) == Rat(a.n * b.d + b.n * a.d, a.d * b.d)
RatSub(a, b) == Rat(a.n * b.d - b.n * a.d, a.d * b.d)

RECURSIVE Pow2(_)
Pow2(k) == IF k = 0 THEN 1 ELSE 2 * Pow2(k - 1)

\* ee.Image.bitwiseAnd with a single-bit constant mask (1 << bit).
BitwiseAnd(x, bitmask) == ((x \div bitmask) % 2) * bitmask

----------------------------------------------------------------------------
(* Dates: ee.Date, advance(n, 'month'), millis() *)

IsLeap(y) == (y % 4 = 0 /\ y % 100 # 0) \/ y % 400 = 0

DaysInMonth(y, m) ==
    IF m = 2 THEN (IF IsLeap(y) THEN 29 ELSE 28)
    ELSE IF m \in {4, 6, 9, 11} THEN 30 ELSE 31

RECURSIVE DaysBeforeMonth(_, _)
DaysBeforeMonth(y, m) ==
    IF m = 1 THEN 0 ELSE DaysBeforeMonth(y, m - 1) + DaysInMonth(y, m - 1)

RECURSIVE DaysBeforeYear(_)
DaysBeforeYear(y) ==
    IF y = EpochYear THEN 0
    ELSE IF y > EpochYear
         THEN DaysBeforeYear(y - 1) + (IF IsLeap(y - 1) THEN 366 ELSE 365)
         ELSE DaysBeforeYear(y + 1) - (IF IsLeap(y) THEN 366 ELSE 365)

Date(y, m, d) == [y |-> y, m |-> m, d |-> d]

\* ee.Date.millis(), in days.
Millis(date) == DaysBeforeYear(date.y) + DaysBeforeMonth(date.y, date.m) + (date.d - 1)

\* ee.Date.advance(n, 'month'): calendar months, the day clamped to the month's end.
AdvanceMonth(date, n) ==
    LET total == date.y * 12 + (date.m - 1) + n
        y == total \div 12
        m == (total % 12) + 1
        dim == DaysInMonth(y, m)
    IN Date(y, m, IF date.d > dim THEN dim ELSE date.d)

\* main.py:14-15
start_date == Date(2024, 3, 1)
end_date == Date(2024, 10, 31)

----------------------------------------------------------------------------
(* Images and the Earth Engine operations the script calls *)

\* Band names are character sequences, so that the pattern "B.*" can be matched.
QA60 == <<"Q", "A", "6", "0">>
SCL == <<"S", "C", "L">>
B4 == <<"B", "4">>
B8 == <<"B", "8">>
NDVI == <<"N", "D", "V", "I">>
ND == <<"n", "d">>

\* An absent system:time_start property.
NoTime == -1000000

Image(t, px) == [kind |-> "image", time |-> t, px |-> px]
\* A computation that raised an Earth Engine error.
Error == [kind |-> "error", time |-> NoTime, px |-> << >>]
\* A value not computed yet.
Pending == [kind |-> "pending", time |-> NoTime, px |-> << >>]

IsImage(v) == v.kind = "image"
IsError(v) == v.kind = "error"
IsPending(v) == v.kind = "pending"

BandNames(img) == DOMAIN img.px

\* ee.Image.select(name): an error when the image has no such band.
Select(img, band) ==
    IF ~IsImage(img) THEN Error
    ELSE IF band \notin BandNames(img) THEN Error
    ELSE Image(img.time, [b \in {band} |-> img.px[b]])

\* The regular expression "B.*".
MatchesBPattern(b) == Len(b) >= 1 /\ b[1] = "B"

\* ee.Image.select("B.*"): an error when no band matches.
SelectOptical(img) ==
    IF ~IsImage(img) THEN Error
    ELSE LET keep == {b \in BandNames(img) : MatchesBPattern(b)}
         IN IF keep = {} THEN Error
            ELSE Image(img.time, [b \in keep |-> img.px[b]])

\* ee.Image.updateMask(mask): a sample stays valid only where it was valid and
\* the mask sample is valid and non-zero.
UpdateMask(img, mask) ==
    IF ~IsImage(img) THEN Error
    ELSE Image(img.time,
               [b \in BandNames(img) |->
                   IF img.px[b].valid /\ mask.valid /\ mask.n # 0
                   THEN img.px[b] ELSE NoData])

\* ee.Image.divide(constant): every band divided; the result carries no properties.
Divide(img, c) ==
    IF ~IsImage(img) THEN Error
    ELSE Image(NoTime,
               [b \in BandNames(img) |->
                   IF img.px[b].valid
                   THEN Rat(img.px[b].n, img.px[b].d * c) ELSE NoData])

\* copyProperties(source, ["system:time_start"])
CopyProperties(img, source) ==
    IF ~IsImage(img) THEN Error ELSE Image(source.time, img.px)


\* Sample-wise comparison and logic of ee.Image: eq, And, Or, bitwiseAnd.  The
\* result is masked wherever an operand is masked.
SEq(s, c) == IF s.valid THEN DN(IF s = DN(c) THEN 1 ELSE 0) ELSE NoData
SAnd(a, b) ==
    IF a.valid /\ b.valid THEN DN(IF a.n # 0 /\ b.n # 0 THEN 1 ELSE 0) ELSE NoData
SOr(a, b) ==
    IF a.valid /\ b.valid THEN DN(IF a.n # 0 \/ b.n # 0 THEN 1 ELSE 0) ELSE NoData
SBitwiseAnd(s, bitmask) == IF s.valid THEN DN(BitwiseAnd(s.n, bitmask)) ELSE NoData

\* main.py:28  image.bandNames().contains('QA60')
has_qa60(image) == QA60 \in BandNames(image)

\* Mutant of mask_with_qa: the cirrus bit is not tested.
mask_with_qa_CloudBitOnly(img) ==
    LET qa == Select(img, QA60)
    IN IF IsError(qa) THEN Error
       ELSE UpdateMask(img, SEq(SBitwiseAnd(qa.px[QA60], Pow2(CloudBit)), 0))

\* main.py:31-37
mask_with_qa(img) ==
    LET qa == Select(img, QA60)
        cloud_bit_mask == Pow2(CloudBit)
        cirrus_bit_mask == Pow2(CirrusBit)
    IN IF IsError(qa) THEN Error
       ELSE LET q == qa.px[QA60]
                mask == SAnd(SEq(SBitwiseAnd(q, cloud_bit_mask), 0),
                             SEq(SBitwiseAnd(q, cirrus_bit_mask), 0))
            IN UpdateMask(img, mask)

\* main.py:39-43
mask_with_scl(img) ==
    LET scl == Select(img, SCL)
    IN IF IsError(scl) THEN Error
       ELSE LET c == scl.px[SCL]
                mask == SOr(SOr(SOr(SEq(c, 4), SEq(c, 5)), SEq(c, 6)), SEq(c, 7))
            IN UpdateMask(img, mask)

\* Mutant of AlgorithmsIf: the two cases exchanged.
AlgorithmsIf_Swapped(condition, trueCase, falseCase) ==
    IF condition THEN falseCase ELSE trueCase

\* ee.Algorithms.If(condition, trueCase, falseCase): the value of the chosen
\* case; an error in the case not chosen is not raised.
AlgorithmsIf(condition, trueCase, falseCase) ==
    IF condition THEN trueCase ELSE falseCase

\* main.py:26-55
mask_s2_clouds(image) ==
    LET masked_image == AlgorithmsIf(has_qa60(image),
                                     mask_with_qa(image),
                                     mask_with_scl(image))
    IN CopyProperties(SelectOptical(Divide(masked_image, ScaleFactor)), image)

\* ee.Image.normalizedDifference([first, second]): one band "nd" holding
\* (first - second) / (first + second); masked where an input is masked or
\* negative, or where the sum is zero.  The result carries no properties.
NormalizedDifference(img, first, second) ==
    IF ~IsImage(img) THEN Error
    ELSE IF first \notin BandNames(img) \/ second \notin BandNames(img) THEN Error
    ELSE LET a == img.px[first]
             b == img.px[second]
         IN IF ~a.valid \/ ~b.valid THEN Image(NoTime, [x \in {ND} |-> NoData])
            ELSE IF a.n < 0 \/ b.n < 0 THEN Image(NoTime, [x \in {ND} |-> NoData])
            ELSE LET sum == RatAdd(a, b)
                     diff == RatSub(a, b)
                 IN IF sum.n = 0 THEN Image(NoTime, [x \in {ND} |-> NoData])
                    ELSE Image(NoTime,
                               [x \in {ND} |-> Rat(diff.n * sum.d, diff.d * sum.n)])

\* ee.Image.rename(name) of a one-band image.
Rename(img, name) ==
    IF ~IsImage(img) THEN Error
    ELSE LET old == CHOOSE b \in BandNames(img) : TRUE
         IN Image(img.time, [x \in {name} |-> img.px[old]])

\* ee.Image.addBands(other): the bands of both, the properties of the first.
AddBands(img, other) ==
    IF ~IsImage(img) \/ ~IsImage(other) THEN Error
    ELSE Image(img.time,
               [b \in BandNames(img) \cup BandNames(other) |->
                   IF b \in BandNames(img) THEN img.px[b] ELSE other.px[b]])

\* Mutant of add_ndvi: the two bands exchanged.
add_ndvi_SwappedBands(image) ==
    AddBands(image, Rename(NormalizedDifference(image, B4, B8), NDVI))

\* main.py:59-62
add_ndvi(image) ==
    LET ndvi == Rename(NormalizedDifference(image, B8, B4), NDVI)
    IN AddBands(image, ndvi)

\* ee.ImageCollection.filterDate(start, end) over a collection given as a
\* function from element ids to images: system:time_start in [start, end),
\* the two instants given as millis() values.
FilterDateIds(coll, start, end) ==
    {i \in DOMAIN coll :
        /\ IsImage(coll[i])
        /\ coll[i].time # NoTime
        /\ start <= coll[i].time
        /\ coll[i].time < end}

FilterDate(coll, start, end) ==
    [i \in FilterDateIds(coll, start, end) |-> coll[i]]

\* Mutant of get_sentinel2_collection: the end date taken as inclusive.
get_sentinel2_collection_InclusiveEnd(catalogue, start, end) ==
    FilterDate(catalogue, start, end + 1)

\* main.py:19-22
get_sentinel2_collection(catalogue, start, end) ==
    FilterDate(catalogue, start, end)

\* A mapped collection fails as a whole when the function fails on an element.
AnyError(coll) == \E i \in DOMAIN coll : IsError(coll[i])

\* ee.ImageCollection.qualityMosaic(band): per pixel the sample of the image
\* with the greatest valid quality value; masked where no image is valid; an
\* image without bands when the collection is empty.  On a tie any of the
\* greatest is taken.
QualityMosaic(coll, band) ==
    IF AnyError(coll) THEN Error
    ELSE IF DOMAIN coll = {} THEN Image(NoTime, << >>)
    ELSE IF \E i \in DOMAIN coll : band \notin BandNames(coll[i]) THEN Error
    ELSE LET validIds == {i \in DOMAIN coll : coll[i].px[band].valid}
             any == CHOOSE i \in DOMAIN coll : TRUE
         IN IF validIds = {}
            THEN Image(NoTime, [b \in BandNames(coll[any]) |-> NoData])
            ELSE LET best == CHOOSE i \in validIds :
                                \A j \in validIds :
                                    ~RatLess(coll[i].px[band], coll[j].px[band])
                 IN Image(NoTime, coll[best].px)

\* ee.Image.set('system:time_start', t)
SetTime(img, t) == IF ~IsImage(img) THEN Error ELSE Image(t, img.px)

\* main.py:77  the start of month window `month`
WindowStart(month) == AdvanceMonth(start_date, month - 1)
\* Mutant of WindowEnd: the end counted from start_date instead of start.
WindowEnd_FromStartDate(month) == AdvanceMonth(start_date, 1)

\* main.py:78  its end
WindowEnd(month) == AdvanceMonth(WindowStart(month), 1)

\* The instants of both, for every month of main.py:73.
MonthWindow ==
    [month \in 1..NumMonths |->
        [start |-> Millis(WindowStart(month)), end |-> Millis(WindowEnd(month))]]

\* main.py:79  s2_processed.filterDate(start, end)
monthly_collection(processed, month) ==
    IF AnyError(processed) THEN processed
    ELSE FilterDate(processed, MonthWindow[month].start, MonthWindow[month].end)

\* ee.ImageCollection.mosaic(): per pixel the valid sample of the latest image.
Mosaic(coll) ==
    IF AnyError(coll) THEN Error
    ELSE IF DOMAIN coll = {} THEN Image(NoTime, << >>)
    ELSE LET validIds == {i \in DOMAIN coll : coll[i].px[NDVI].valid}
         IN IF validIds = {} THEN Image(NoTime, [b \in {NDVI} |-> NoData])
            ELSE LET last == CHOOSE i \in validIds :
                                \A j \in validIds : coll[j].time <= coll[i].time
                 IN Image(NoTime, coll[last].px)

\* Mutant of create_monthly_mvc: mosaic() in place of qualityMosaic('NDVI').
create_monthly_mvc_Mosaic(processed, month) ==
    SetTime(Mosaic(monthly_collection(processed, month)), MonthWindow[month].start)

\* main.py:76-81
create_monthly_mvc(processed, month) ==
    SetTime(QualityMosaic(monthly_collection(processed, month), NDVI),
            MonthWindow[month].start)

RECURSIVE RatSum(_, _)
\* The sum of the band's samples over the images `ids` of a collection.
RatSum(coll, ids) ==
    IF ids = {} THEN Rat(0, 1)
    ELSE LET i == CHOOSE x \in ids : TRUE
         IN RatAdd(coll[i].px[NDVI], RatSum(coll, ids \ {i}))

\* ee.ImageCollection.select('NDVI'): Image.select mapped over the collection.
SelectAll(coll, band) == [i \in DOMAIN coll |-> Select(coll[i], band)]

\* ee.ImageCollection.mean(): per pixel the mean of the valid samples; masked
\* where no image is valid.
Mean(coll) ==
    IF AnyError(coll) THEN Error
    ELSE LET validIds == {i \in DOMAIN coll : coll[i].px[NDVI].valid}
         IN IF validIds = {} THEN Image(NoTime, [b \in {NDVI} |-> NoData])
            ELSE LET sum == RatSum(coll, validIds)
                 IN Image(NoTime,
                          [b \in {NDVI} |-> Rat(sum.n, sum.d * Cardinality(validIds))])

\* main.py:88
annual_mean(mvc) == Mean(SelectAll(mvc, NDVI))

\* main.py:89  reproject('EPSG:4326', None, 10): the samples are those of the
\* mean, laid out on the target grid.
Reproject(img, crs, scale) ==
    IF ~IsImage(img) THEN Error
    ELSE [kind |-> "image", time |-> img.time, px |-> img.px,
          crs |-> crs, scale |-> scale]

----------------------------------------------------------------------------
(* Inputs: the images the catalogue can hold *)

\* Marks a band the image does not have.
Absent == [valid |-> FALSE, n |-> 0, d |-> 0]

\* A catalogue image taken on `date`; each band is a sample or Absent.
S2Image(date, qa, scl, b4, b8) ==
    LET choice == (QA60 :> qa) @@ (SCL :> scl) @@ (B4 :> b4) @@ (B8 :> b8)
        bands == {b \in DOMAIN choice : choice[b] # Absent}
    IN Image(Millis(date), [b \in bands |-> choice[b]])

\* Catalogue images for the whole pipeline: dates on both sides of every
\* boundary the script draws, both masking strategies, clear and cloudy
\* samples, a zero NIR+Red sum and an image without QA60 and SCL.
PipelineImages ==
    << S2Image(Date(2024, 2, 29), DN(0), DN(4), DN(1000), DN(3000)),
       S2Image(Date(2024, 3, 1), DN(0), DN(4), DN(1000), DN(3000)),
       S2Image(Date(2024, 3, 15), DN(1024), DN(4), DN(1000), DN(9000)),
       S2Image(Date(2024, 3, 15), Absent, Absent, DN(1000), DN(3000)),
       S2Image(Date(2024, 3, 31), Absent, DN(5), DN(3500), DN(6500)),
       S2Image(Date(2024, 4, 1), DN(0), DN(4), DN(1000), DN(9000)),
       S2Image(Date(2024, 10, 31), DN(0), DN(4), DN(1000), DN(3000)) >>

\* Catalogues of at most MaxImages distinct images, listed in a canonical order.
Archives ==
    UNION {{[i \in 1..k |-> PipelineImages[idx[i]]] :
                idx \in {f \in [1..k -> 1..Len(PipelineImages)] :
                            \A i \in 1..k : \A j \in 1..k : i < j => f[i] < f[j]}} :
           k \in 0..MaxImages}

\* Sample values a raw band can hold at the pixel.
QAValues == {Absent, NoData, DN(0), DN(1), DN(1024), DN(2048), DN(3072), DN(1025)}
SCLValues == {Absent, NoData} \cup {DN(c) : c \in 0..11}
ReflectanceValues == {Absent, NoData, DN(0), DN(1000), DN(3000)}

\* Every single image over those values, taken inside the date range.
SingleImages ==
    {S2Image(Date(2024, 3, 1), qa, scl, b4, b8) :
        qa \in QAValues, scl \in SCLValues,
        b4 \in ReflectanceValues, b8 \in ReflectanceValues}

----------------------------------------------------------------------------
(* The script as a state machine *)

Months == 1..NumMonths

InitRest ==
    /\ pc = "query"
    /\ s2_collection = << >>
    /\ masked = << >>
    /\ s2_processed = << >>
    /\ monthly_mvc_collection = [m \in Months |-> Pending]
    /\ mean_ndvi = Pending
    /\ export_image = Pending

Init == archive \in Archives /\ InitRest

InitImage == archive \in {<<img>> : img \in SingleImages} /\ InitRest

\* main.py:66
GetSentinel2Collection ==
    /\ pc = "query"
    /\ s2_collection' = get_sentinel2_collection(archive, Millis(start_date), Millis(end_date))
    /\ masked' = [i \in DOMAIN s2_collection' |-> Pending]
    /\ s2_processed' = [i \in DOMAIN s2_collection' |-> Pending]
    /\ pc' = "run"
    /\ UNCHANGED <<archive, monthly_mvc_collection, mean_ndvi, export_image>>

\* main.py:69  .map(mask_s2_clouds), on one image
MaskS2Clouds(i) ==
    /\ pc = "run"
    /\ i \in DOMAIN masked
    /\ IsPending(masked[i])
    /\ masked' = [masked EXCEPT ![i] = mask_s2_clouds(s2_collection[i])]
    /\ UNCHANGED <<archive, pc, s2_collection, s2_processed,
                   monthly_mvc_collection, mean_ndvi, export_image>>

\* main.py:69  .map(add_ndvi).select('NDVI'), on one image
AddNdvi(i) ==
    /\ pc = "run"
    /\ i \in DOMAIN masked
    /\ ~IsPending(masked[i])
    /\ IsPending(s2_processed[i])
    /\ s2_processed' = [s2_processed EXCEPT ![i] = Select(add_ndvi(masked[i]), NDVI)]
    /\ UNCHANGED <<archive, pc, s2_collection, masked,
                   monthly_mvc_collection, mean_ndvi, export_image>>

\* s2_processed is complete: every image has been masked and indexed.
AllProcessed == \A i \in DOMAIN s2_processed : ~IsPending(s2_processed[i])

\* main.py:84  months.map(create_monthly_mvc), on one month
CreateMonthlyMvc(m) ==
    /\ pc = "run"
    /\ AllProcessed
    /\ IsPending(monthly_mvc_collection[m])
    /\ monthly_mvc_collection' =
           [monthly_mvc_collection EXCEPT ![m] = create_monthly_mvc(s2_processed, m)]
    /\ UNCHANGED <<archive, pc, s2_collection, masked, s2_processed,
                   mean_ndvi, export_image>>

\* Mutant of AllComposited: the last month is not waited for.
AllComposited_SkipsLast ==
    \A m \in 1..(NumMonths - 1) : ~IsPending(monthly_mvc_collection[m])

\* All images of monthly_mvc_collection exist.
AllComposited == \A m \in Months : ~IsPending(monthly_mvc_collection[m])

\* main.py:88
MeanNdvi ==
    /\ pc = "run"
    /\ AllComposited
    /\ IsPending(mean_ndvi)
    /\ mean_ndvi' = annual_mean(monthly_mvc_collection)
    /\ UNCHANGED <<archive, pc, s2_collection, masked, s2_processed,
                   monthly_mvc_collection, export_image>>

\* main.py:89
ReprojectMean ==
    /\ pc = "run"
    /\ ~IsPending(mean_ndvi)
    /\ export_image' = Reproject(mean_ndvi, "EPSG:4326", TargetScale)
    /\ pc' = "done"
    /\ UNCHANGED <<archive, s2_collection, masked, s2_processed,
                   monthly_mvc_collection, mean_ndvi>>

Next ==
    \/ GetSentinel2Collection
    \/ \E i \in 1..MaxImages : MaskS2Clouds(i)
    \/ \E i \in 1..MaxImages : AddNdvi(i)
    \/ \E m \in Months : CreateMonthlyMvc(m)
    \/ MeanNdvi
    \/ ReprojectMean

Spec == Init /\ [][Next]_vars

\* The per-image part of the script on every single image.
NextImage ==
    \/ GetSentinel2Collection
    \/ \E i \in 1..MaxImages : MaskS2Clouds(i)
    \/ \E i \in 1..MaxImages : AddNdvi(i)

SpecImage == InitImage /\ [][NextImage]_vars

----------------------------------------------------------------------------
(* Cloud masking and NDVI on single images (SpecImage) *)

\* Bits 10 and 11 of a QA60 value are both zero.
QABitsClear(q) == (q \div 1024) % 2 = 0 /\ (q \div 2048) % 2 = 0

\* The QA60 rule keeps band b of the catalogue image.
QAKeeps(img, b) ==
    img.px[b].valid /\ img.px[QA60].valid /\ QABitsClear(img.px[QA60].n)

\* The SCL rule keeps band b of the catalogue image.
SCLKeeps(img, b) ==
    img.px[b].valid /\ img.px[SCL].valid /\ img.px[SCL].n \in {4, 5, 6, 7}

HasOptical(img) == B4 \in BandNames(img) \/ B8 \in BandNames(img)

\* C1: every image is masked by exactly one strategy, chosen by the presence
\* of QA60 alone: with QA60 the output exists whenever the image has an optical
\* band and its samples are valid exactly where the QA60 rule keeps them (SCL
\* plays no part, present or not); without QA60 the output exists when SCL and
\* an optical band are present and its samples are valid exactly where the SCL
\* rule keeps them.
C1_ExactlyOneStrategy ==
    \A i \in DOMAIN masked :
        ~IsPending(masked[i]) =>
            LET img == s2_collection[i]
                out == masked[i]
            IN IF QA60 \in BandNames(img)
               THEN /\ IsImage(out) <=> HasOptical(img)
                    /\ IsImage(out) =>
                         \A b \in BandNames(out) : out.px[b].valid <=> QAKeeps(img, b)
               ELSE /\ IsImage(out) <=> (SCL \in BandNames(img) /\ HasOptical(img))
                    /\ IsImage(out) =>
                         \A b \in BandNames(out) : out.px[b].valid <=> SCLKeeps(img, b)

\* C1 witness: an image with QA60 and SCL on which the two strategies disagree
\* (QA60 clear, SCL 9 = cloud) has been masked, and its samples are valid.
C1_Witness ==
    \E i \in DOMAIN masked :
        /\ IsImage(masked[i])
        /\ {QA60, SCL, B4, B8} \subseteq BandNames(s2_collection[i])
        /\ s2_collection[i].px[QA60] = DN(0)
        /\ s2_collection[i].px[SCL] = DN(9)
        /\ masked[i].px[B4].valid /\ masked[i].px[B8].valid

\* C2 as stated: with QA60 present (and holding a value at the pixel) a sample of
\* the masked output is valid if and only if bits 10 and 11 of the QA60 value
\* are both zero.
C2_ValidIffBitsClear ==
    \A i \in DOMAIN masked :
        (/\ IsImage(masked[i])
         /\ QA60 \in BandNames(s2_collection[i])
         /\ s2_collection[i].px[QA60].valid) =>
            \A b \in BandNames(masked[i]) :
                masked[i].px[b].valid <=>
                    QABitsClear(s2_collection[i].px[QA60].n)

\* C2 amended: with QA60 present a sample of the masked output is valid if and
\* only if the band's sample and the QA60 sample are valid in the catalogue
\* image and bits 10 and 11 of the QA60 value are both zero; with either bit
\* set every retained band is nodata, whatever the SCL value, and a valid
\* sample is the catalogue value divided by 10000.
C2_ValidIffSourceValidAndBitsClear ==
    \A i \in DOMAIN masked :
        (IsImage(masked[i]) /\ QA60 \in BandNames(s2_collection[i])) =>
            LET img == s2_collection[i]
                qa == img.px[QA60]
            IN /\ BandNames(masked[i]) = {B4, B8} \cap BandNames(img)
               /\ \A b \in BandNames(masked[i]) :
                     /\ masked[i].px[b].valid <=>
                            (img.px[b].valid /\ qa.valid /\ QABitsClear(qa.n))
                     /\ masked[i].px[b].valid =>
                            masked[i].px[b].n * 10000 = img.px[b].n * masked[i].px[b].d
               /\ (qa.valid /\ ~QABitsClear(qa.n)) =>
                     \A b \in BandNames(masked[i]) : masked[i].px[b] = NoData

\* C2 witness: the cirrus bit is set on a pixel that SCL classifies as water and
\* whose reflectances are valid; the masked output is nodata there.
C2_Witness ==
    \E i \in DOMAIN masked :
        /\ IsImage(masked[i])
        /\ {QA60, SCL, B4, B8} \subseteq BandNames(s2_collection[i])
        /\ s2_collection[i].px[QA60] = DN(2048)
        /\ s2_collection[i].px[SCL] = DN(6)
        /\ s2_collection[i].px[B4].valid /\ s2_collection[i].px[B8].valid
        /\ masked[i].px[B4] = NoData /\ masked[i].px[B8] = NoData

\* C3: the NDVI band equals (B8 - B4) / (B8 + B4) of the masked image where both
\* samples are valid and their sum is not zero, and is nodata where an input is
\* nodata or the sum is exactly zero; a valid NDVI is a finite number in [-1, 1]
\* and s2_processed keeps the NDVI band only.
C3_NdviFormula ==
    \A i \in DOMAIN s2_processed :
        IsImage(s2_processed[i]) =>
            LET a == masked[i].px[B8]
                b == masked[i].px[B4]
                v == s2_processed[i].px[NDVI]
                sum == a.n * b.d + b.n * a.d
                diff == a.n * b.d - b.n * a.d
            IN /\ BandNames(s2_processed[i]) = {NDVI}
               /\ IF a.valid /\ b.valid /\ sum # 0
                  THEN /\ v.valid
                       /\ v.d > 0
                       /\ v.n * sum = v.d * diff
                       /\ -v.d <= v.n /\ v.n <= v.d
                  ELSE v = NoData

\* C3 witness: NDVI has been computed on an image whose masked B8 and B4 are
\* both valid and sum to zero.
C3_Witness ==
    \E i \in DOMAIN s2_processed :
        /\ IsImage(s2_processed[i])
        /\ masked[i].px[B8].valid /\ masked[i].px[B4].valid
        /\ masked[i].px[B8].n = 0 /\ masked[i].px[B4].n = 0
        /\ s2_processed[i].px[NDVI] = NoData

----------------------------------------------------------------------------
(* Monthly compositing and the annual mean (Spec) *)

\* The calendar months counted from start_date, as day numbers: month m runs
\* from the first instant of CalendarMonth[m].first up to, not including,
\* that of CalendarMonth[m].next.
CalendarMonth ==
    [m \in 1..NumMonths |->
        [first |-> Millis(AdvanceMonth(start_date, m - 1)),
         next |-> Millis(AdvanceMonth(start_date, m))]]

\* The catalogue images of s2_collection taken in month m.
TakenIn(m) ==
    {i \in DOMAIN s2_collection :
        /\ CalendarMonth[m].first <= archive[i].time
        /\ archive[i].time < CalendarMonth[m].next}

\* The valid NDVI samples of those images.
ValidNdviIn(m) ==
    {s2_processed[i].px[NDVI] : i \in {j \in TakenIn(m) : s2_processed[j].px[NDVI].valid}}

NoErrorIn(coll) == \A i \in DOMAIN coll : ~IsError(coll[i])

\* An image holds no valid sample in any band.
HoldsNoValue(img) == \A b \in BandNames(img) : ~img.px[b].valid

ValidMonths ==
    {m \in Months :
        /\ IsImage(monthly_mvc_collection[m])
        /\ NDVI \in BandNames(monthly_mvc_collection[m])
        /\ monthly_mvc_collection[m].px[NDVI].valid}

\* C5 as stated: once computed, the annual mean is the arithmetic mean of the
\* monthly composites that are valid at the pixel (divided by their number, not
\* by 12), and nodata when none of the twelve is valid.
C5_AnnualMeanOfValidMonths ==
    (~IsPending(mean_ndvi) /\ NoErrorIn(s2_processed)) =>
        /\ IsImage(mean_ndvi)
        /\ IF ValidMonths = {}
           THEN mean_ndvi.px[NDVI] = NoData
           ELSE LET sum == RatSum(monthly_mvc_collection, ValidMonths)
                IN mean_ndvi.px[NDVI] = Rat(sum.n, sum.d * Cardinality(ValidMonths))

\* The months whose window selects no image.
EmptyMonths == {m \in Months : TakenIn(m) = {}}

\* C6 as stated: a window that selects no image raises no error, its composite
\* is an NDVI band that is nodata, and the run still reaches the annual mean.
C6_EmptyWindowNotFatal ==
    /\ \A m \in EmptyMonths :
          (~IsPending(monthly_mvc_collection[m]) /\ NoErrorIn(s2_processed)) =>
              /\ IsImage(monthly_mvc_collection[m])
              /\ NDVI \in BandNames(monthly_mvc_collection[m])
              /\ monthly_mvc_collection[m].px[NDVI] = NoData
    /\ (EmptyMonths # {} /\ ~IsPending(mean_ndvi) /\ NoErrorIn(s2_processed)) =>
          IsImage(mean_ndvi)

\* s2_processed without the images whose processing failed.
WithoutFailed == [i \in {j \in DOMAIN s2_processed : ~IsError(s2_processed[j])} |->
                     s2_processed[i]]

\* C7 as stated: an image that lacks a band masking or NDVI needs is dropped
\* from its window alone, and every composite is produced from the rest.
C7_MissingBandDropsImage ==
    \A m \in Months :
        ~IsPending(monthly_mvc_collection[m]) =>
            monthly_mvc_collection[m] = create_monthly_mvc(WithoutFailed, m)

\* Each window is not empty and ends where the next starts; the first starts
\* on start_date and the last ends twelve months later.
WindowsAdjacent ==
    /\ MonthWindow[1].start = Millis(start_date)
    /\ MonthWindow[NumMonths].end = Millis(AdvanceMonth(start_date, NumMonths))
    /\ \A m \in Months : MonthWindow[m].start < MonthWindow[m].end
    /\ \A m \in 1..(NumMonths - 1) : MonthWindow[m].end = MonthWindow[m + 1].start

\* C8: the twelve windows are half-open and tile [start_date, start_date + 12
\* months): each window is not empty and ends where the next starts, so every
\* catalogue timestamp lies in at most one window, in exactly one when it is in
\* the tiled range, and every processed image is selected by exactly one window.
C8_WindowsTile ==
    /\ WindowsAdjacent
    /\ \A i \in DOMAIN archive :
          LET t == archive[i].time
              hits == {m \in Months : MonthWindow[m].start <= t /\ t < MonthWindow[m].end}
          IN /\ Cardinality(hits) <= 1
             /\ (Cardinality(hits) = 1) <=>
                    (CalendarMonth[1].first <= t /\ t < CalendarMonth[NumMonths].next)
    /\ (AllProcessed /\ NoErrorIn(s2_processed)) =>
          \A i \in DOMAIN s2_processed :
              Cardinality({m \in Months :
                              i \in DOMAIN monthly_collection(s2_processed, m)}) = 1

\* C8 witness: images taken on the last day of the first window and on the
\* first day of the second have been processed; the first window selects the
\* one and the second the other.
C8_Witness ==
    /\ pc = "run" /\ AllProcessed /\ NoErrorIn(s2_processed)
    /\ \E i \in DOMAIN s2_processed : \E j \in DOMAIN s2_processed :
          /\ archive[i].time = Millis(Date(2024, 3, 31))
          /\ archive[j].time = Millis(Date(2024, 4, 1))
          /\ DOMAIN monthly_collection(s2_processed, 1) = {i}
          /\ DOMAIN monthly_collection(s2_processed, 2) = {j}

\* C9: the annual mean is computed only after all twelve monthly composites
\* exist, a composite only after every image is processed, and NDVI only on a
\* masked image; nothing else orders the months.
C9_JoinBeforeMean ==
    /\ ~IsPending(mean_ndvi) => \A m \in Months : ~IsPending(monthly_mvc_collection[m])
    /\ ~IsPending(export_image) => ~IsPending(mean_ndvi)
    /\ (\E m \in Months : ~IsPending(monthly_mvc_collection[m])) =>
          \A i \in DOMAIN s2_processed : ~IsPending(s2_processed[i])
    /\ \A i \in DOMAIN s2_processed : ~IsPending(s2_processed[i]) => ~IsPending(masked[i])

\* C9 witness: the mean has been computed.
C9_Witness == ~IsPending(mean_ndvi) /\ DOMAIN s2_processed # {}

Day_2024_03_01 == Millis(Date(2024, 3, 1))
Day_2024_10_31 == Millis(Date(2024, 10, 31))

\* The windows run from 2024-03-01 to 2025-03-01, the ninth from 2024-11-01.
WindowDates ==
    /\ MonthWindow[1].start = Day_2024_03_01
    /\ MonthWindow[9].start = Millis(Date(2024, 11, 1))
    /\ MonthWindow[12].end = Millis(Date(2025, 3, 1))

\* C10: s2_collection holds exactly the catalogue images taken in
\* [2024-03-01, 2024-10-31), while the windows run from 2024-03-01 to
\* 2025-03-01; windows 9 to 12 start on 2024-11-01 or later and select no
\* image, an image taken on or after 2024-10-31 is selected by no window, and
\* only the composites of windows 1 to 8 can hold a valid value.
C10_LateWindowsEmpty ==
    /\ WindowDates
    /\ pc # "query" =>
          DOMAIN s2_collection =
              {i \in DOMAIN archive :
                  Day_2024_03_01 <= archive[i].time /\ archive[i].time < Day_2024_10_31}
    /\ (pc # "query" /\ AllProcessed /\ NoErrorIn(s2_processed)) =>
          /\ \A m \in 9..12 : DOMAIN monthly_collection(s2_processed, m) = {}
          /\ \A i \in DOMAIN archive :
                archive[i].time >= Day_2024_10_31 =>
                    \A m \in Months : i \notin DOMAIN monthly_collection(s2_processed, m)
    /\ ValidMonths \subseteq 1..8

\* C10 witness: the catalogue holds an image taken on 2024-10-31 and one taken
\* in range, every composite has been produced, and windows 9 to 12 hold nothing.
C10_Witness ==
    /\ \E i \in DOMAIN archive : archive[i].time = Millis(Date(2024, 10, 31))
    /\ DOMAIN s2_collection # {}
    /\ \A m \in Months : IsImage(monthly_mvc_collection[m])
    /\ \A m \in 9..12 : BandNames(monthly_mvc_collection[m]) = {}

====
